---------------------------- MODULE Spec2Model ----------------------------
(***************************************************************************)
(* Session reconstruction, friction classification and insight generation  *)
(* of the intent-telemetry intelligence service.                           *)
(*                                                                         *)
(* Values:                                                                 *)
(*   - a datetime is an integer instant; None (no end time) is NoTime;     *)
(*   - a float is an exact rational <<numerator, denominator>> in lowest   *)
(*     terms with a positive denominator;                                  *)
(*   - an event's data mapping is a set of <<key, value>> pairs, a missing *)
(*     key being a key with no pair, and a value that is not a number      *)
(*     (null, text) being NonNumeric;                                      *)
(*   - a Python dict is the sequence of its entries in insertion order.    *)
(***************************************************************************)
EXTENDS Integers, Sequences, FiniteSets, TLC

\* ------------------------------------------------------------------ bounds
\* Number of add_events calls (ingested batches) a behaviour may contain.
MaxBatches == 2
\* Number of analyze_session / generate_insights calls a behaviour may contain.
MaxAnalyses == 2

\* ------------------------------------------------------------ event model
\* EventType members (by their values).
VIEW_TRANSITION == "view.transition"
ACTION_CLICK == "action.click"
ACTION_SUBMIT == "action.submit"
ACTION_INPUT == "action.input"
PERFORMANCE_LOAD == "performance.load"
PERFORMANCE_LATENCY == "performance.latency"
FRICTION_RAPID_CLICK == "friction.rapid_click"
FRICTION_NAVIGATION_REVERSAL == "friction.navigation_reversal"
FRICTION_ERROR == "friction.error"
FRICTION_FORM_ABANDONMENT == "friction.form_abandonment"

\* None for an Optional[datetime].
NoTime == -1
\* The instant datetime.now() returns: later than every event timestamp.
Now == 100

\* TelemetryEvent (the fields the core reads).
TelemetryEvent(id, sid, type, seq, ts, data) ==
    [eventId |-> id, sessionId |-> sid, type |-> type,
     sequenceNumber |-> seq, timestamp |-> ts, data |-> data]

\* dict.get(key, default) on an event's data mapping.
DataGet(data, key, default) ==
    IF \E p \in data : p[1] = key
    THEN (CHOOSE p \in data : p[1] = key)[2]
    ELSE default

\* A data value that is not a number (JSON null, a text): data is
\* Dict[str, Any], so the boundary accepts it.  No number of the batches
\* equals it.
NonNumeric == -99999

\* Session ids the clients use.
SessionIds == {"s1", "s2"}

\* The batches the ingestion boundary may hand to add_events.  Within a
\* session, timestamps increase with the sequence number (equal sequence
\* numbers carry equal timestamps).
BatchReversals ==
    << TelemetryEvent("r3", "s1", FRICTION_NAVIGATION_REVERSAL, 3, 30,
                      {<<"timeOnPage", 1999>>}),
       TelemetryEvent("r1", "s1", FRICTION_NAVIGATION_REVERSAL, 1, 10, {}) >>
BatchTie ==
    << TelemetryEvent("r2", "s1", FRICTION_NAVIGATION_REVERSAL, 2, 20,
                      {<<"timeOnPage", 2000>>}),
       TelemetryEvent("l2", "s1", PERFORMANCE_LATENCY, 2, 20,
                      {<<"latency", -1>>}),
       TelemetryEvent("e2", "s2", FRICTION_ERROR, 2, 20, {}),
       TelemetryEvent("k6", "s1", FRICTION_RAPID_CLICK, 6, 60,
                      {<<"clickCount", 12>>}),
       TelemetryEvent("p9", "s2", PERFORMANCE_LOAD, 9, 90,
                      {<<"loadTime", 12000>>}),
       TelemetryEvent("e5", "s2", FRICTION_ERROR, 5, 50, {}),
       TelemetryEvent("e6", "s2", FRICTION_ERROR, 6, 60, {}),
       TelemetryEvent("e8", "s2", FRICTION_ERROR, 8, 80, {}),
       TelemetryEvent("e8b", "s2", FRICTION_ERROR, 8, 80, {}) >>
BatchMixed ==
    << TelemetryEvent("f5", "s1", FRICTION_FORM_ABANDONMENT, 5, 50,
                      {<<"fieldsCompleted", 3>>, <<"totalFields", 2>>}),
       TelemetryEvent("c7", "s2", ACTION_CLICK, 7, 70, {}),
       TelemetryEvent("p4", "s1", PERFORMANCE_LOAD, 4, 40,
                      {<<"loadTime", 3001>>}),
       TelemetryEvent("v1", "s2", VIEW_TRANSITION, 1, 10, {}),
       TelemetryEvent("a8", "s1", FRICTION_FORM_ABANDONMENT, 8, 80,
                      {<<"fieldsCompleted", -1>>}),
       TelemetryEvent("p4b", "s2", PERFORMANCE_LOAD, 4, 40,
                      {<<"loadTime", 3000>>}),
       TelemetryEvent("p3", "s2", PERFORMANCE_LOAD, 3, 30,
                      {<<"loadTime", 2999>>}) >>
\* A batch whose numeric fields are present but not numbers.  Only
\* SpecMalformed delivers it: under Spec every numeric field is a number
\* (of any sign) or missing.
BatchMalformed ==
    << TelemetryEvent("n1", "s1", FRICTION_FORM_ABANDONMENT, 1, 10,
                      {<<"fieldsCompleted", NonNumeric>>, <<"totalFields", 0>>}),
       TelemetryEvent("n2", "s2", PERFORMANCE_LATENCY, 2, 20,
                      {<<"latency", NonNumeric>>}) >>
BatchNames == {"reversals", "tie", "mixed"}
Batch(name) ==
    CASE name = "reversals" -> BatchReversals
      [] name = "tie" -> BatchTie
      [] name = "mixed" -> BatchMixed
      [] name = "malformed" -> BatchMalformed
Batches == {Batch(name) : name \in BatchNames}

\* ------------------------------------------------------- dict operations
\* key in d
HasKey(d, k) == \E i \in 1..Len(d) : d[i].key = k
\* index of the entry of key k
KeyIndex(d, k) == CHOOSE i \in 1..Len(d) : d[i].key = k
\* d.get(k, default)
DictGet(d, k, default) == IF HasKey(d, k) THEN d[KeyIndex(d, k)].val ELSE default

\* --------------------------------------------------- SessionReconstructor
\* One iteration of the loop of add_events: create the entry if the
\* session id is absent, then append the event to the entry's list.
\* Variant: an event whose id is already buffered for the session is dropped.
AddEventDedup(d, event) ==
    IF ~HasKey(d, event.sessionId)
    THEN Append(d, [key |-> event.sessionId, val |-> <<event>>])
    ELSE IF \E i \in 1..Len(DictGet(d, event.sessionId, <<>>)) :
              DictGet(d, event.sessionId, <<>>)[i].eventId = event.eventId
         THEN d
         ELSE [d EXCEPT ![KeyIndex(d, event.sessionId)].val = Append(@, event)]
\* The loop body as written.
AddEvent(d, event) ==
    LET d1 == IF ~HasKey(d, event.sessionId)
              THEN Append(d, [key |-> event.sessionId, val |-> <<>>])
              ELSE d
    IN  [d1 EXCEPT ![KeyIndex(d1, event.sessionId)].val = Append(@, event)]

\* SessionReconstructor.add_events: the loop over the batch.
RECURSIVE add_events(_, _)
add_events(d, events) ==
    IF events = <<>> THEN d
    ELSE add_events(AddEvent(d, Head(events)), Tail(events))

\* sorted(events, key=lambda e: e.sequenceNumber): a new list, stable.
\* Insert x after every element whose key is <= its own.
\* (s is ascending, so these elements are its first k.)
InsertSorted(s, x) ==
    LET k == Cardinality({i \in 1..Len(s) :
                            s[i].sequenceNumber <= x.sequenceNumber})
    IN  SubSeq(s, 1, k) \o <<x>> \o SubSeq(s, k + 1, Len(s))
RECURSIVE SortedUnstable(_)
\* Variant: a sort that puts equal sequence numbers in reverse arrival order.
SortedUnstable(events) ==
    IF events = <<>> THEN <<>>
    ELSE LET rest == SortedUnstable(Tail(events))
             x == Head(events)
             before == SelectSeq(rest, LAMBDA e : e.sequenceNumber <= x.sequenceNumber)
             after == SelectSeq(rest, LAMBDA e : e.sequenceNumber > x.sequenceNumber)
         IN  before \o <<x>> \o after
RECURSIVE SortedFrom(_, _)
SortedFrom(acc, events) ==
    IF events = <<>> THEN acc
    ELSE SortedFrom(InsertSorted(acc, Head(events)), Tail(events))
Sorted(events) == SortedFrom(<<>>, events)

\* ReconstructedSession.__init__.  `events` is the list sorted() built, a
\* list object of its own (events_is = "new_list"); start_time and end_time
\* are read from the argument list, in arrival order.
\* Variant: the session keeps the buffer's list object (self.events = events).
SessionAliased(session_id, events) ==
    [session_id |-> session_id,
     events_is |-> "buffer_list",
     events |-> Sorted(events),
     start_time |-> IF events # <<>> THEN events[1].timestamp ELSE Now,
     end_time |-> IF events # <<>> THEN events[Len(events)].timestamp ELSE NoTime]
\* Variant: the session keeps a copy of the list in arrival order.
SessionUnsorted(session_id, events) ==
    [session_id |-> session_id,
     events_is |-> "new_list",
     events |-> events,
     start_time |-> IF events # <<>> THEN events[1].timestamp ELSE Now,
     end_time |-> IF events # <<>> THEN events[Len(events)].timestamp ELSE NoTime]
\* The constructor as written.
ReconstructedSession(session_id, events) ==
    [session_id |-> session_id,
     events_is |-> "new_list",
     events |-> Sorted(events),
     start_time |-> IF events # <<>> THEN events[1].timestamp ELSE Now,
     end_time |-> IF events # <<>> THEN events[Len(events)].timestamp ELSE NoTime]

\* The buffer after self.sessions.get(session_id, []): dict.get inserts
\* nothing, known key or not.
\* Variant: an unknown id gets an empty entry (as setdefault would).
AfterGetInserting(d, session_id) ==
    IF HasKey(d, session_id) THEN d
    ELSE Append(d, [key |-> session_id, val |-> <<>>])
AfterGet(d, session_id) == d

\* SessionReconstructor.get_session
get_session(d, session_id) ==
    ReconstructedSession(session_id, DictGet(d, session_id, <<>>))

\* SessionReconstructor.get_all_sessions: one session per entry, in the
\* dict's order.
get_all_sessions(d) ==
    [i \in 1..Len(d) |-> ReconstructedSession(d[i].key, d[i].val)]

\* SessionReconstructor.get_session_count
get_session_count(d) == Len(d)

\* ------------------------------------------------------------ arithmetic
RECURSIVE GCD(_, _)
GCD(a, b) == IF b = 0 THEN a ELSE GCD(b, a % b)
Abs(x) == IF x < 0 THEN -x ELSE x
\* The rational n/d (d # 0) in lowest terms with a positive denominator.
Rat(n, d) ==
    LET g == GCD(Abs(n), Abs(d))
        sgn == IF d < 0 THEN -1 ELSE 1
    IN  << sgn * (n \div g), sgn * (d \div g) >>
\* Least common denominator of two rationals, and their numerators over it.
LCD(x, y) == (x[2] \div GCD(x[2], y[2])) * y[2]
Over(x, d) == x[1] * (d \div x[2])
RatLess(x, y) == Over(x, LCD(x, y)) < Over(y, LCD(x, y))
RatLeq(x, y) == Over(x, LCD(x, y)) <= Over(y, LCD(x, y))
RatAdd(x, y) == Rat(Over(x, LCD(x, y)) + Over(y, LCD(x, y)), LCD(x, y))
RatSub(x, y) == Rat(Over(x, LCD(x, y)) - Over(y, LCD(x, y)), LCD(x, y))
RatMul(x, y) == Rat(x[1] * y[1], x[2] * y[2])
\* min(a, b) of Python: b when b < a, else a.
RatMin(a, b) == IF RatLess(b, a) THEN b ELSE a
Zero == Rat(0, 1)
One == Rat(1, 1)
\* sum(severities): the sum of the two halves of the list.
RECURSIVE RatSum(_)
RatSum(s) ==
    IF s = <<>> THEN Zero
    ELSE IF Len(s) = 1 THEN s[1]
    ELSE LET half == Len(s) \div 2
         IN  RatAdd(RatSum(SubSeq(s, 1, half)),
                    RatSum(SubSeq(s, half + 1, Len(s))))
\* max(severities) of a non-empty list: the greater of the maxima of its
\* two halves.
RECURSIVE RatMax(_)
RatMax(s) ==
    IF Len(s) = 1 THEN s[1]
    ELSE LET half == Len(s) \div 2
             m1 == RatMax(SubSeq(s, 1, half))
             m2 == RatMax(SubSeq(s, half + 1, Len(s)))
         IN  IF RatLess(m1, m2) THEN m2 ELSE m1

\* ------------------------------------------------- ReconstructedSession
\* ReconstructedSession.get_events_by_type, on the session's event list.
get_events_by_type(events, event_type) ==
    SelectSeq(events, LAMBDA e : e.type = event_type)
\* ReconstructedSession.get_page_views
get_page_views(events) == Len(get_events_by_type(events, VIEW_TRANSITION))
\* ReconstructedSession.get_interactions
get_interactions(events) ==
    Len(get_events_by_type(events, ACTION_CLICK))
    + Len(get_events_by_type(events, ACTION_SUBMIT))
    + Len(get_events_by_type(events, ACTION_INPUT))
\* ReconstructedSession.get_friction_events
get_friction_events(events) ==
    SelectSeq(events, LAMBDA e : e.type \in
        {FRICTION_RAPID_CLICK, FRICTION_NAVIGATION_REVERSAL,
         FRICTION_ERROR, FRICTION_FORM_ABANDONMENT})
\* Variant: the difference is taken whether or not the session has an end.
DurationUnguarded(session) == session.end_time - session.start_time
\* ReconstructedSession.get_duration_ms (instants are milliseconds)
get_duration_ms(session) ==
    IF session.end_time = NoTime THEN 0
    ELSE session.end_time - session.start_time

\* ---------------------------------------------------- FrictionClassifier
\* FrictionPattern; the description is the name of its message template.
FrictionPattern(pattern_type, severity, event, description) ==
    [pattern_type |-> pattern_type, severity |-> severity,
     timestamp |-> event.timestamp, description |-> description,
     event_id |-> event.eventId]

\* Thresholds and scales of the detection rules.
LoadThreshold == 3000
LoadScale == 10000
LatencyScale == 5000
ClickScale == 10
QuickReversalMs == 2000
ReversalCount == 3

\* Variant: a load event at the threshold itself counts as slow.
SlowLoadsInclusive(events) ==
    LET slow == SelectSeq(get_events_by_type(events, PERFORMANCE_LOAD),
                    LAMBDA e : DataGet(e.data, "loadTime", 0) >= LoadThreshold)
    IN  [i \in 1..Len(slow) |->
            FrictionPattern("performance_degradation",
                RatMin(One, Rat(DataGet(slow[i].data, "loadTime", 0), LoadScale)),
                slow[i], "slow_page_load")]
\* Slow page loads: one pattern per load event with loadTime > 3000.
SlowLoads(events) ==
    LET slow == SelectSeq(get_events_by_type(events, PERFORMANCE_LOAD),
                    LAMBDA e : DataGet(e.data, "loadTime", 0) > LoadThreshold)
    IN  [i \in 1..Len(slow) |->
            FrictionPattern("performance_degradation",
                RatMin(One, Rat(DataGet(slow[i].data, "loadTime", 0), LoadScale)),
                slow[i], "slow_page_load")]
\* High latency: one pattern per latency event.
HighLatencies(events) ==
    LET lat == get_events_by_type(events, PERFORMANCE_LATENCY)
    IN  [i \in 1..Len(lat) |->
            FrictionPattern("performance_degradation",
                RatMin(One, Rat(DataGet(lat[i].data, "latency", 0), LatencyScale)),
                lat[i], "high_latency")]
\* FrictionClassifier._detect_performance_degradation
detect_performance_degradation(events) == SlowLoads(events) \o HighLatencies(events)

\* Rapid clicks: one pattern per rapid-click event.
RapidClicks(events) ==
    LET rc == get_events_by_type(events, FRICTION_RAPID_CLICK)
    IN  [i \in 1..Len(rc) |->
            FrictionPattern("affordance_confusion",
                RatMin(One, Rat(DataGet(rc[i].data, "clickCount", 0), ClickScale)),
                rc[i], "rapid_clicking")]
\* Quick reversals: one pattern per reversal with timeOnPage < 2000.
QuickReversals(events) ==
    LET quick == SelectSeq(get_events_by_type(events, FRICTION_NAVIGATION_REVERSAL),
                    LAMBDA e : DataGet(e.data, "timeOnPage", 0) < QuickReversalMs)
    IN  [i \in 1..Len(quick) |->
            FrictionPattern("affordance_confusion", Rat(7, 10),
                quick[i], "quick_reversal")]
\* FrictionClassifier._detect_affordance_confusion
detect_affordance_confusion(events) == RapidClicks(events) \o QuickReversals(events)

\* Severity of a form abandonment: 1.0 - fieldsCompleted / totalFields,
\* the rate being 0 when totalFields <= 0.
AbandonSeverity(data) ==
    LET fields_completed == DataGet(data, "fieldsCompleted", 0)
        total_fields == DataGet(data, "totalFields", 1)
        completion_rate == IF total_fields > 0
                           THEN Rat(fields_completed, total_fields)
                           ELSE Zero
    IN  RatSub(One, completion_rate)
\* FrictionClassifier._detect_cognitive_overload
detect_cognitive_overload(events) ==
    LET ab == get_events_by_type(events, FRICTION_FORM_ABANDONMENT)
    IN  [i \in 1..Len(ab) |->
            FrictionPattern("cognitive_overload", AbandonSeverity(ab[i].data),
                ab[i], "form_abandoned")]

\* Errors: one pattern per friction error event.
Errors(events) ==
    LET er == get_events_by_type(events, FRICTION_ERROR)
    IN  [i \in 1..Len(er) |->
            FrictionPattern("expectation_mismatch", Rat(8, 10),
                er[i], "error_encountered")]
\* Multiple reversals: one pattern, anchored to reversals[-1], when there
\* are at least three reversal events.
MultipleReversals(events) ==
    LET reversals == get_events_by_type(events, FRICTION_NAVIGATION_REVERSAL)
    IN  IF Len(reversals) >= ReversalCount
        THEN << FrictionPattern("expectation_mismatch", Rat(6, 10),
                    reversals[Len(reversals)], "multiple_reversals") >>
        ELSE <<>>
\* FrictionClassifier._detect_expectation_mismatch
detect_expectation_mismatch(events) == Errors(events) \o MultipleReversals(events)

\* The list analyze_session builds and returns.
DetectAll(events) ==
    detect_performance_degradation(events)
    \o detect_affordance_confusion(events)
    \o detect_cognitive_overload(events)
    \o detect_expectation_mismatch(events)

\* The events on which a detection rule raises TypeError: the value the
\* rule reads is compared with or divided by a number, which None and str
\* do not support.  The form rule tests total_fields > 0 first and divides
\* fields_completed only when the test holds.
TypeErrors(events) ==
    {e \in {events[i] : i \in 1..Len(events)} :
        \/ e.type = PERFORMANCE_LOAD
              /\ DataGet(e.data, "loadTime", 0) = NonNumeric
        \/ e.type = PERFORMANCE_LATENCY
              /\ DataGet(e.data, "latency", 0) = NonNumeric
        \/ e.type = FRICTION_RAPID_CLICK
              /\ DataGet(e.data, "clickCount", 0) = NonNumeric
        \/ e.type = FRICTION_NAVIGATION_REVERSAL
              /\ DataGet(e.data, "timeOnPage", 0) = NonNumeric
        \/ e.type = FRICTION_FORM_ABANDONMENT
              /\ \/ DataGet(e.data, "totalFields", 1) = NonNumeric
                 \/ /\ DataGet(e.data, "totalFields", 1) > 0
                    /\ DataGet(e.data, "fieldsCompleted", 0) = NonNumeric}
\* FrictionClassifier.analyze_session leaves by an exception.
analyze_session_raises(events) == TypeErrors(events) # {}

\* [p.severity for p in patterns]
Severities(ps) == [i \in 1..Len(ps) |-> ps[i].severity]

\* self.patterns.extend(patterns)
\* Variant: the history is replaced (self.patterns = patterns).
ExtendReplace(history, patterns) == patterns
Extend(history, patterns) == history \o patterns

\* FrictionClassifier.get_severity_summary
get_severity_summary(history) ==
    IF history = <<>>
    THEN [average |-> Zero, max |-> Zero, count |-> 0]
    ELSE LET severities == Severities(history)
         IN  [average |-> RatMul(RatSum(severities), Rat(1, Len(severities))),
              max |-> RatMax(severities),
              count |-> Len(severities)]

\* -------------------------------------------------------- IntentInferrer
\* IntentHypothesis
IntentHypothesis(hypothesis, confidence, supporting_evidence) ==
    [hypothesis |-> hypothesis, confidence |-> confidence,
     supporting_evidence |-> supporting_evidence]

\* str.lower() on the hypothesis texts that occur.
Lower(text) ==
    CASE text = "User Unable to find pricing" -> "user unable to find pricing"
      [] text = "Unable to determine intent (analysis error)"
            -> "unable to determine intent (analysis error)"
      [] text = "User interacted with the application (AI inference unavailable - OpenAI API key not configured)"
            -> "user interacted with the application (ai inference unavailable - openai api key not configured)"
      [] OTHER -> text
\* needle in text, for the lower-cased texts that occur.
Contains(text, needle) ==
    <<text, needle>> \in
        { <<"user unable to find pricing", "unable">>,
          <<"unable to determine intent (analysis error)", "unable">>,
          <<"user abandoned the signup form", "abandon">> }

\* The hypothesis lists a reply of the language model may carry.
HypothesisLists ==
    { <<>>,
      << IntentHypothesis("User Unable to find pricing", Rat(9, 10),
                          << <<"llm evidence", 0>> >>) >>,
      << IntentHypothesis("user comparing products", Rat(88, 100),
                          << <<"llm evidence", 0>> >>),
         IntentHypothesis("user abandoned the signup form", Rat(7, 10),
                          << <<"llm evidence", 0>> >>) >> }
\* What the chat-completion call does: a parsable reply, or any exception
\* (network failure, invalid JSON, a hypothesis lacking a key).
LLMOutcomes == {"reply", "exception"}

\* ReconstructedSession.get_event_sequence reads event.type.value for each
\* event.  TelemetryEvent sets use_enum_values, so a validated event holds
\* the plain string and the read raises AttributeError; an event built
\* without validation holds the EventType member.
get_event_sequence_raises(events, enum_types) == events # <<>> /\ ~enum_types

\* The hypothesis infer_intent returns from its own except branch.
InferrerFallback ==
    << IntentHypothesis("Unable to determine intent (analysis error)", Zero,
                        << <<"Error during analysis", 0>> >>) >>

\* IntentInferrer.infer_intent.  The event summary is prepared before the
\* try block; the client property (ValueError when no valid API key) and
\* the completion call are inside it.
infer_intent(events, enum_types, api_key_valid, outcome, reply) ==
    IF get_event_sequence_raises(events, enum_types)
    THEN [status |-> "raised", hypotheses |-> <<>>]
    ELSE IF api_key_valid /\ outcome = "reply"
         THEN [status |-> "returned", hypotheses |-> reply]
         ELSE [status |-> "returned", hypotheses |-> InferrerFallback]

\* ------------------------------------------------------ InsightGenerator
\* A recommendation: the name of its message, and the text it quotes.
Recommendation(kind, about) == [kind |-> kind, about |-> about]

\* Threshold of the high-friction recommendation.
HighFrictionCount == 5

\* The type-specific recommendations, in order.
TypeRecommendations(friction_patterns) ==
    LET OfType(t) == SelectSeq(friction_patterns, LAMBDA p : p.pattern_type = t)
        perf == OfType("performance_degradation")
        avg_severity ==
            RatMul(RatSum([i \in 1..Len(perf) |-> perf[i].severity]),
                   Rat(1, Len(perf)))
    IN  (IF perf # <<>>
         THEN IF RatLess(Rat(7, 10), avg_severity)
              THEN << Recommendation("critical_performance", "") >>
              ELSE << Recommendation("monitor_performance", "") >>
         ELSE <<>>)
        \o (IF OfType("affordance_confusion") # <<>>
            THEN << Recommendation("visual_feedback", "") >> ELSE <<>>)
        \o (IF OfType("cognitive_overload") # <<>>
            THEN << Recommendation("simplify_forms", "") >> ELSE <<>>)
        \o (IF OfType("expectation_mismatch") # <<>>
            THEN << Recommendation("align_expectations", "") >> ELSE <<>>)

\* A hypothesis with confidence > 0.7 whose lower-cased text contains
\* "abandon" or "unable".
\* Variant: confidence >= 0.7.
StrugglingInclusive(h) ==
    /\ RatLeq(Rat(7, 10), h.confidence)
    /\ \/ Contains(Lower(h.hypothesis), "abandon")
       \/ Contains(Lower(h.hypothesis), "unable")
Struggling(h) ==
    /\ RatLess(Rat(7, 10), h.confidence)
    /\ \/ Contains(Lower(h.hypothesis), "abandon")
       \/ Contains(Lower(h.hypothesis), "unable")
\* The intent-based recommendations, one per such hypothesis.
IntentRecommendations(intent_hypotheses) ==
    LET st == SelectSeq(intent_hypotheses, Struggling)
    IN  [i \in 1..Len(st) |-> Recommendation("struggling_user", Lower(st[i].hypothesis))]

\* The general recommendations.
\* Variant: high friction only above five patterns.
GeneralRecommendationsStrict(friction_patterns) ==
    IF Len(friction_patterns) = 0
    THEN << Recommendation("smooth_session", "") >>
    ELSE IF Len(friction_patterns) > HighFrictionCount
         THEN << Recommendation("high_friction", "") >>
         ELSE <<>>
GeneralRecommendations(friction_patterns) ==
    IF Len(friction_patterns) = 0
    THEN << Recommendation("smooth_session", "") >>
    ELSE IF Len(friction_patterns) >= HighFrictionCount
         THEN << Recommendation("high_friction", "") >>
         ELSE <<>>

\* InsightGenerator._generate_recommendations
generate_recommendations(friction_patterns, intent_hypotheses) ==
    TypeRecommendations(friction_patterns)
    \o IntentRecommendations(intent_hypotheses)
    \o GeneralRecommendations(friction_patterns)

\* The except branch of generate_insights builds its placeholder hypothesis
\* from session.metrics, an attribute ReconstructedSession does not define
\* (and without the timestamp IntentHypothesis requires): building it raises.
PlaceholderRaises == TRUE
Placeholder(events) ==
    << IntentHypothesis("User interacted with the application (AI inference unavailable - OpenAI API key not configured)",
                        Rat(1, 2),
                        << <<"events", Len(events)>>,
                           <<"pages", get_page_views(events)>> >>) >>

\* Weights of _calculate_confidence and the pattern count at which the
\* friction factor saturates.
IntentWeight == Rat(7, 10)
FrictionWeight == Rat(3, 10)
FrictionSaturation == 10
\* floor(x * 100) and the remainder of x * 100, over x's denominator.
Hundredths(x) == (x[1] * 100) \div x[2]
HundredthsRest(x) == (x[1] * 100) % x[2]
\* Variant: the digits after the second decimal are cut off.
Truncate2(x) == Rat(Hundredths(x), 100)
\* round(x, 2): the nearest multiple of 0.01, a tie going to the even one.
Round2(x) ==
    LET q == Hundredths(x)
        r == HundredthsRest(x)
    IN  IF 2 * r < x[2] THEN Rat(q, 100)
        ELSE IF 2 * r > x[2] THEN Rat(q + 1, 100)
        ELSE IF q % 2 = 0 THEN Rat(q, 100) ELSE Rat(q + 1, 100)
\* InsightGenerator._calculate_confidence
calculate_confidence(intent_hypotheses, friction_patterns) ==
    LET intent_confidence ==
            IF intent_hypotheses # <<>>
            THEN RatMax([i \in 1..Len(intent_hypotheses) |->
                            intent_hypotheses[i].confidence])
            ELSE Zero
        friction_factor ==
            RatMin(One, Rat(Len(friction_patterns), FrictionSaturation))
        confidence == RatAdd(RatMul(intent_confidence, IntentWeight),
                             RatMul(friction_factor, FrictionWeight))
    IN  Round2(confidence)

\* InsightGenerator.generate_insights, after the classifier has run:
\* the InsightSummary it returns, or the exception that leaves it.
generate_insights(session, events, friction_patterns, inferred) ==
    IF inferred.status = "raised" /\ PlaceholderRaises
    THEN [status |-> "raised", session_id |-> session.session_id,
          timestamp |-> NoTime, intent_hypotheses |-> <<>>,
          friction_patterns |-> <<>>, recommendations |-> <<>>,
          confidence_score |-> Zero]
    ELSE LET intent_hypotheses ==
                 IF inferred.status = "raised" THEN Placeholder(events)
                 ELSE inferred.hypotheses
         IN  [status |-> "returned", session_id |-> session.session_id,
              timestamp |-> IF session.end_time # NoTime THEN session.end_time
                            ELSE session.start_time,
              intent_hypotheses |-> intent_hypotheses,
              friction_patterns |-> friction_patterns,
              recommendations |->
                  generate_recommendations(friction_patterns, intent_hypotheses),
              confidence_score |->
                  calculate_confidence(intent_hypotheses, friction_patterns)]

\* ------------------------------------------------------------------ state
VARIABLES
    sessions,     \* SessionReconstructor.sessions: the process-wide buffer
    delivered,    \* the names of the batches handed to add_events, in call order
    held,         \* the ReconstructedSession a caller holds (<<>>: none yet)
    patterns,     \* FrictionClassifier.patterns: the cumulative history
    returned,     \* the severities of every list analyze_session returned
    last,         \* the last analyze_session / generate_insights call
    enum_types,   \* events hold EventType members (built without validation)
    api_key_valid, \* IntentInferrer._api_key is a usable key
    pending       \* the generate_insights call inside the completion call
                  \* (<<>>: none)

vars == << sessions, delivered, held, patterns, returned, last,
           enum_types, api_key_valid, pending >>

\* The events of a held session, read now.  The session's list is the one
\* sorted() built, so it is read from the session itself; a session whose
\* list were the buffer's own list object would read the buffer.
SessionEvents(session) ==
    IF session.events_is = "buffer_list" /\ HasKey(sessions, session.session_id)
    THEN DictGet(sessions, session.session_id, <<>>)
    ELSE session.events

NoCall ==
    [op |-> "none", events |-> <<>>, result |-> <<>>, inferrer_failed |-> FALSE,
     insight |-> <<>>, raised |-> FALSE]

Init ==
    /\ sessions = <<>>
    /\ delivered = <<>>
    /\ held = <<>>
    /\ patterns = <<>>
    /\ returned = <<>>
    /\ last = NoCall
    /\ enum_types \in BOOLEAN
    /\ api_key_valid \in BOOLEAN
    /\ pending = <<>>

\* POST /api/v1/events/batch: ingest_batch calls add_events on the whole
\* batch; the handler has no await, so it runs to completion.
IngestBatch(name) ==
    /\ Len(delivered) < MaxBatches
    /\ sessions' = add_events(sessions, Batch(name))
    /\ delivered' = Append(delivered, name)
    /\ UNCHANGED << held, patterns, returned, last, enum_types, api_key_valid,
                    pending >>

\* A caller asks for one session and keeps the result.
GetSession(session_id) ==
    /\ held' = << get_session(sessions, session_id) >>
    /\ sessions' = AfterGet(sessions, session_id)
    /\ UNCHANGED << delivered, patterns, returned, last,
                    enum_types, api_key_valid, pending >>

\* A caller asks for all sessions and keeps the i-th of the list.
GetAllSessions(i) ==
    /\ i \in 1..Len(get_all_sessions(sessions))
    /\ held' = << get_all_sessions(sessions)[i] >>
    /\ UNCHANGED << sessions, delivered, patterns, returned, last,
                    enum_types, api_key_valid, pending >>

\* A call the classifier left by an exception: nothing is returned and
\* the history is not extended.
AnalysisRaised(op, events) ==
    /\ last' = [op |-> op, events |-> events, result |-> <<>>,
                inferrer_failed |-> FALSE, insight |-> <<>>, raised |-> TRUE]
    /\ UNCHANGED << patterns, returned >>

\* FrictionClassifier.analyze_session on the held session.
AnalyzeSession ==
    /\ held # <<>>
    /\ Len(returned) < MaxAnalyses
    /\ \E events \in {SessionEvents(held[1])} :
       IF analyze_session_raises(events)
       THEN AnalysisRaised("analyze_session", events)
       ELSE \E found \in {DetectAll(events)} :
           /\ patterns' = Extend(patterns, found)
           /\ returned' = Append(returned, Severities(found))
           /\ last' = [op |-> "analyze_session", events |-> events,
                       result |-> found, inferrer_failed |-> FALSE,
                       insight |-> <<>>, raised |-> FALSE]
    /\ UNCHANGED << sessions, delivered, held, enum_types, api_key_valid,
                    pending >>

\* The completion call is reached: the classifier and the event summary
\* did not raise, and the client property found a usable key.
CompletionReached ==
    /\ held # <<>>
    /\ ~analyze_session_raises(SessionEvents(held[1]))
    /\ ~get_event_sequence_raises(SessionEvents(held[1]), enum_types)
    /\ api_key_valid

\* InsightGenerator.generate_insights on the held session: the classifier
\* runs (and extends its history) before the inferrer is called; the
\* completion call, when it is reached, replies or raises.
GenerateInsights ==
    /\ held # <<>>
    /\ Len(returned) < MaxAnalyses
    /\ \E events \in {SessionEvents(held[1])} :
       IF analyze_session_raises(events)
       THEN AnalysisRaised("generate_insights", events)
       ELSE
       \E found \in {DetectAll(events)} :
       \E outcome \in IF CompletionReached THEN LLMOutcomes ELSE {"exception"} :
       \E reply \in IF outcome = "reply" THEN HypothesisLists ELSE {<<>>} :
       \E inferred \in {infer_intent(events, enum_types, api_key_valid,
                                     outcome, reply)} :
           /\ patterns' = Extend(patterns, found)
           /\ returned' = Append(returned, Severities(found))
           /\ last' = [op |-> "generate_insights", events |-> events,
                       result |-> found,
                       inferrer_failed |->
                           ~(inferred.status = "returned" /\ api_key_valid
                             /\ outcome = "reply"),
                       insight |-> << generate_insights(held[1], events,
                                                        found, inferred) >>,
                       raised |-> FALSE]
    /\ UNCHANGED << sessions, delivered, held, enum_types, api_key_valid,
                    pending >>

Next ==
    \/ \E name \in BatchNames : IngestBatch(name)
    \/ \E session_id \in SessionIds : GetSession(session_id)
    \/ \E i \in 1..Len(sessions) : GetAllSessions(i)
    \/ AnalyzeSession
    \/ GenerateInsights

Spec == Init /\ [][Next]_vars

\* The session reconstructor on its own: ingestion and the queries.  The
\* analysis steps leave sessions, delivered and held as they are, so what
\* these three can hold under Spec is what they can hold here.
NextSessions ==
    \/ \E name \in BatchNames : IngestBatch(name)
    \/ \E session_id \in SessionIds : GetSession(session_id)
    \/ \E i \in 1..Len(sessions) : GetAllSessions(i)

SpecSessions == Init /\ [][NextSessions]_vars

\* The service when clients also send payloads whose numeric fields are
\* not numbers.
NextMalformed ==
    \/ Next
    \/ IngestBatch("malformed")

SpecMalformed == Init /\ [][NextMalformed]_vars

\* The requests as the event loop runs them.  Every handler is a coroutine
\* on one loop.  ingest_batch and the query handlers contain no await.
\* get_session_insights awaits generate_insights, which awaits infer_intent;
\* infer_intent contains no await: it calls the synchronous
\* client.chat.completions.create, so the chain never yields and the loop's
\* thread stays inside the call until the reply or the exception arrives.
\* No handler takes a lock.
LoopFree == pending = <<>>

\* generate_insights up to the completion call: the classifier has run and
\* extended its history, the request is sent.
BeginInsights ==
    /\ LoopFree
    /\ held # <<>>
    /\ Len(returned) < MaxAnalyses
    /\ CompletionReached
    /\ \E events \in {SessionEvents(held[1])} :
       \E found \in {DetectAll(events)} :
           /\ patterns' = Extend(patterns, found)
           /\ returned' = Append(returned, Severities(found))
           /\ pending' = << [session |-> held[1], events |-> events,
                             found |-> found] >>
    /\ UNCHANGED << sessions, delivered, held, last, enum_types, api_key_valid >>

\* The completion call replies or raises, and generate_insights finishes.
CompleteInsights ==
    /\ pending # <<>>
    /\ \E outcome \in LLMOutcomes :
       \E reply \in IF outcome = "reply" THEN HypothesisLists ELSE {<<>>} :
       \E inferred \in {infer_intent(pending[1].events, enum_types,
                                     api_key_valid, outcome, reply)} :
           last' = [op |-> "generate_insights", events |-> pending[1].events,
                    result |-> pending[1].found,
                    inferrer_failed |-> outcome # "reply",
                    insight |-> << generate_insights(pending[1].session,
                                       pending[1].events, pending[1].found,
                                       inferred) >>,
                    raised |-> FALSE]
    /\ pending' = <<>>
    /\ UNCHANGED << sessions, delivered, held, patterns, returned,
                    enum_types, api_key_valid >>

\* A step of any other request: it needs the loop.
OtherRequestStep ==
    /\ LoopFree
    /\ \/ \E name \in BatchNames : IngestBatch(name)
       \/ \E session_id \in SessionIds : GetSession(session_id)
       \/ \E i \in 1..Len(sessions) : GetAllSessions(i)
       \/ AnalyzeSession
       \/ ~CompletionReached /\ GenerateInsights

NextLoop ==
    \/ OtherRequestStep
    \/ BeginInsights
    \/ CompleteInsights

SpecLoop == Init /\ [][NextLoop]_vars

\* ----------------------------------------------------- helpers of claims
RECURSIVE Flatten(_)
Flatten(ss) == IF ss = <<>> THEN <<>> ELSE Head(ss) \o Flatten(Tail(ss))
\* The events delivered for one session id, in arrival order.
Arrivals(session_id) ==
    SelectSeq(Flatten([i \in 1..Len(delivered) |-> Batch(delivered[i])]),
              LAMBDA e : e.sessionId = session_id)
\* Number of occurrences of x in the sequence s.
Count(s, x) == Cardinality({i \in 1..Len(s) : s[i] = x})
\* The events of every batch.
AllEvents == UNION {{b[i] : i \in 1..Len(b)} : b \in Batches}
\* Position, in a stable ascending sort by sequence number, of the i-th
\* element of arr.
StableRank(arr, i) ==
    1 + Cardinality({j \in 1..Len(arr) :
            \/ arr[j].sequenceNumber < arr[i].sequenceNumber
            \/ arr[j].sequenceNumber = arr[i].sequenceNumber /\ j < i})

\* ------------------------------------------------------------------ C1
\* C1: for every session id, get_session(id).events holds exactly the events
\* delivered for that id, ascending by sequence number, events with equal
\* sequence numbers in their arrival order; a held session is ascending too.
C1_SortedStable ==
    /\ \A sid \in SessionIds :
          LET arr == Arrivals(sid)
              ev == SessionEvents(get_session(sessions, sid))
          IN  /\ Len(ev) = Len(arr)
              /\ \A i \in 1..Len(arr) : ev[StableRank(arr, i)] = arr[i]
    /\ held # <<>> =>
          LET ev == SessionEvents(held[1])
          IN  \A i \in 1..Len(ev) - 1 :
                  ev[i].sequenceNumber <= ev[i + 1].sequenceNumber
\* A held session of events that arrived out of order, two of them (r2, l2)
\* with the same sequence number.
C1_Witness ==
    /\ held # <<>>
    /\ Len(held[1].events) >= 4
    /\ held[1].events # Arrivals(held[1].session_id)
    /\ \E i \in 1..Len(held[1].events) - 1 :
          /\ held[1].events[i].sequenceNumber = held[1].events[i + 1].sequenceNumber
          /\ held[1].events[i].eventId # held[1].events[i + 1].eventId

\* ------------------------------------------------------------------ C2
\* C2: for a non-empty held session, start_time <= the timestamp of each of
\* its events <= end_time.
C2_TimeBounds ==
    (held # <<>> /\ SessionEvents(held[1]) # <<>>) =>
        LET ev == SessionEvents(held[1])
        IN  \A i \in 1..Len(ev) :
                /\ held[1].start_time <= ev[i].timestamp
                /\ ev[i].timestamp <= held[1].end_time

\* ------------------------------------------------------------------ C3
\* C3: for every session id the buffered events are exactly the multiset of
\* the events delivered with that id, and the id is a key of the buffer
\* exactly when an event was delivered with it.
C3_NoLossNoDup ==
    \A sid \in SessionIds :
        LET arr == Arrivals(sid)
            buf == DictGet(sessions, sid, <<>>)
        IN  /\ HasKey(sessions, sid) <=> arr # <<>>
            /\ Len(buf) = Len(arr)
            /\ \A e \in AllEvents : Count(buf, e) = Count(arr, e)
\* Two batches were ingested, both session ids hold events, and one event
\* was delivered twice and is buffered twice.
C3_Witness ==
    /\ Len(delivered) >= 2
    /\ \A sid \in SessionIds : HasKey(sessions, sid)
    /\ \E sid \in SessionIds : \E e \in AllEvents :
          Count(DictGet(sessions, sid, <<>>), e) = 2

\* ------------------------------------------------------------------ C4
\* What a caller can read from a session it holds.
SessionView(session) ==
    [events |-> SessionEvents(session),
     start_time |-> session.start_time,
     end_time |-> session.end_time,
     duration_ms |-> get_duration_ms(session),
     page_views |-> get_page_views(SessionEvents(session)),
     interactions |-> get_interactions(SessionEvents(session)),
     friction_events |-> get_friction_events(SessionEvents(session))]
\* C4: an add_events call leaves everything readable from a held session
\* unchanged, while get_session afterwards returns the new events too.
C4_Snapshot ==
    [][ (held # <<>> /\ delivered' # delivered) =>
            /\ SessionView(held[1])' = SessionView(held[1])
            /\ \A sid \in SessionIds :
                  Len(get_session(sessions', sid).events)
                  = Len(get_session(sessions, sid).events)
                    + Len(SelectSeq(Batch(delivered'[Len(delivered')]),
                                    LAMBDA e : e.sessionId = sid)) ]_vars
\* A held, non-empty session whose id has received events since.
C4_Witness ==
    /\ held # <<>>
    /\ held[1].events # <<>>
    /\ Len(SessionEvents(held[1])) < Len(DictGet(sessions, held[1].session_id, <<>>))

\* ------------------------------------------------------------------ C5
\* The friction patterns of the classifier's history and of the last call.
KnownPatterns ==
    {patterns[i] : i \in 1..Len(patterns)}
    \cup {last.result[i] : i \in 1..Len(last.result)}
\* C5: every friction pattern analyze_session produces has a severity
\* within [0.0, 1.0].
C5_SeverityInUnitInterval ==
    \A p \in KnownPatterns : RatLeq(Zero, p.severity) /\ RatLeq(p.severity, One)

\* ------------------------------------------------------------------ C6
\* The fallback hypothesis the claim describes: confidence 0.5, evidence
\* listing the session's event count and page-view count.
C6_Fallback(events) ==
    << IntentHypothesis("User interacted with the application (AI inference unavailable - OpenAI API key not configured)",
                        Rat(1, 2),
                        << <<"events", Len(events)>>,
                           <<"pages", Len(SelectSeq(events,
                                 LAMBDA e : e.type = VIEW_TRANSITION))>> >>) >>
\* C6: when the inferrer failed (no valid API key, an exception of the
\* completion call, or an exception of infer_intent itself),
\* generate_insights returns a summary whose hypotheses are exactly the
\* fallback hypothesis.
C6_FallbackOnFailure ==
    (last.op = "generate_insights" /\ last.inferrer_failed) =>
        /\ last.insight[1].status = "returned"
        /\ last.insight[1].intent_hypotheses = C6_Fallback(last.events)

\* ------------------------------------------------------------------ C7
\* The kinds of the recommendations of the last returned summary.
RecKinds(recs) == [i \in 1..Len(recs) |-> recs[i].kind]
Smooth == Recommendation("smooth_session", "")
\* The last call was a generate_insights call that returned a summary.
InsightReturned ==
    last.op = "generate_insights" /\ last.insight[1].status = "returned"
\* C7 as stated: with zero friction patterns the recommendations are the
\* smooth-session recommendation and nothing else.
C7_OnlySmooth ==
    (InsightReturned /\ Len(last.result) = 0) =>
        last.insight[1].recommendations = << Smooth >>
\* A hypothesis of confidence above 0.7 whose text contains "abandon" or
\* "unable" in any letter case (the texts of the model that do).
C7_StrugglingHypothesis(h) ==
    /\ h.confidence[1] * 10 > 7 * h.confidence[2]
    /\ h.hypothesis \in {"User Unable to find pricing",
                         "Unable to determine intent (analysis error)",
                         "user abandoned the signup form"}
\* C7 amended: with zero friction patterns the recommendations end with the
\* smooth-session recommendation, which is preceded by one struggling-user
\* recommendation per hypothesis of confidence above 0.7 whose text contains
\* "abandon" or "unable", and by nothing else.
C7_SmoothAndStruggling ==
    (InsightReturned /\ Len(last.result) = 0) =>
        LET recs == last.insight[1].recommendations
            hyps == last.insight[1].intent_hypotheses
            n == Cardinality({i \in 1..Len(hyps) : C7_StrugglingHypothesis(hyps[i])})
        IN  /\ Len(recs) = n + 1
            /\ recs[Len(recs)] = Smooth
            /\ \A i \in 1..n : recs[i].kind = "struggling_user"
\* A summary for a session of several events and no friction that
\* recommends both.
C7_Witness ==
    /\ InsightReturned
    /\ Len(last.events) >= 3
    /\ Len(last.result) = 0
    /\ RecKinds(last.insight[1].recommendations)
           = << "struggling_user", "smooth_session" >>

\* ------------------------------------------------------------------ C8
\* C8: the high-friction recommendation is present exactly when the session
\* has five or more friction patterns, the smooth-session recommendation
\* exactly when it has none, and never both.
C8_GeneralRecommendations ==
    InsightReturned =>
        LET kinds == RecKinds(last.insight[1].recommendations)
            Has(k) == \E i \in 1..Len(kinds) : kinds[i] = k
        IN  /\ Has("high_friction") <=> Len(last.result) >= 5
            /\ Has("smooth_session") <=> Len(last.result) = 0
            /\ ~(Has("high_friction") /\ Has("smooth_session"))
            /\ Cardinality({i \in 1..Len(kinds) :
                   kinds[i] \in {"high_friction", "smooth_session"}}) <= 1
\* A summary for a session of exactly five friction patterns, with the
\* high-friction recommendation.
C8_Witness ==
    /\ InsightReturned
    /\ Len(last.result) = 5
    /\ \E i \in 1..Len(last.insight[1].recommendations) :
          last.insight[1].recommendations[i].kind = "high_friction"

\* ------------------------------------------------------------------ C9
\* The severity of every finding analyze_session has returned, in order.
AllReturned == Flatten(returned)
\* C9: get_severity_summary reports the number, the greatest severity and
\* the mean severity of all findings returned so far (0, 0.0, 0.0 when
\* there are none), and the last call returned only findings of events of
\* the session it was given.
C9_SeveritySummary ==
    LET summary == get_severity_summary(patterns)
        all == AllReturned
        total == RatSum(all)
    IN  /\ summary.count = Len(all)
        /\ all = <<>> => summary.average = <<0, 1>> /\ summary.max = <<0, 1>>
        /\ all # <<>> =>
              /\ RatMul(summary.average, Rat(Len(all), 1)) = total
              /\ \E i \in 1..Len(all) : all[i] = summary.max
              /\ \A i \in 1..Len(all) : RatLeq(all[i], summary.max)
        /\ \A i \in 1..Len(last.result) :
              \E j \in 1..Len(last.events) :
                  /\ last.events[j].eventId = last.result[i].event_id
                  /\ last.events[j].timestamp = last.result[i].timestamp
\* Two calls, on sessions of different ids, each with findings.
C9_Witness ==
    /\ Len(returned) = 2
    /\ returned[1] = << <<1, 1>>, <<4, 5>>, <<4, 5>>, <<4, 5>>, <<4, 5>>, <<4, 5>> >>
    /\ Len(returned[2]) >= 3
    /\ last.events[1].sessionId = "s1"
    /\ get_severity_summary(patterns).count = 6 + Len(returned[2])

\* ------------------------------------------------------------------ C10
\* The reversal events of the session of the last call, and the repeated
\* reversal findings the call returned.
LastReversals ==
    {i \in 1..Len(last.events) : last.events[i].type = FRICTION_NAVIGATION_REVERSAL}
LastRepeated ==
    {i \in 1..Len(last.result) : last.result[i].description = "multiple_reversals"}
\* C10: a session yields one repeated-reversal finding (expectation
\* mismatch, severity 0.6) when it has three or more navigation reversals
\* and none when it has fewer; the finding carries the event id and the
\* timestamp of a reversal of the greatest sequence number.
C10_RepeatedReversal ==
    last.op # "none" =>
        /\ Cardinality(LastRepeated)
               = IF Cardinality(LastReversals) >= 3 THEN 1 ELSE 0
        /\ \A i \in LastRepeated :
              /\ last.result[i].pattern_type = "expectation_mismatch"
              /\ last.result[i].severity = <<3, 5>>
              /\ \E j \in LastReversals :
                    /\ last.events[j].eventId = last.result[i].event_id
                    /\ last.events[j].timestamp = last.result[i].timestamp
                    /\ \A k \in LastReversals :
                          last.events[k].sequenceNumber
                              <= last.events[j].sequenceNumber
\* A finding for exactly three reversals, the last of which to arrive (r2)
\* is not the one of the greatest sequence number (r3).
C10_Witness ==
    /\ Cardinality(LastReversals) = 3
    /\ \E i \in LastRepeated : last.result[i].event_id = "r3"
    /\ LET arr == SelectSeq(Arrivals("s1"),
                      LAMBDA e : e.type = FRICTION_NAVIGATION_REVERSAL)
       IN  Len(arr) = 3 /\ arr[3].eventId = "r2"

\* ------------------------------------------------------------------ C11
\* The slow-page-load findings the last call returned for the event at
\* position i of its session.
SlowLoadFindings(i) ==
    {j \in 1..Len(last.result) :
        /\ last.result[j].description = "slow_page_load"
        /\ last.result[j].event_id = last.events[i].eventId
        /\ last.result[j].timestamp = last.events[i].timestamp}
\* Number of events of the last call's session that are equal to its i-th.
Copies(i) == Count(last.events, last.events[i])
\* C11: a performance-load event produces a slow-page-load finding exactly
\* when its loadTime is strictly greater than 3000 (none at 2999 and 3000,
\* one at 3001), and the finding's severity is min(1.0, loadTime / 10000).
C11_SlowLoadThreshold ==
    last.op # "none" =>
        \A i \in 1..Len(last.events) :
            last.events[i].type = PERFORMANCE_LOAD =>
                LET loadTime == DataGet(last.events[i].data, "loadTime", 0)
                    found == SlowLoadFindings(i)
                IN  /\ loadTime <= 3000 => found = {}
                    /\ loadTime > 3000 =>
                          /\ Cardinality(found) = Copies(i)
                          /\ \A j \in found :
                                /\ last.result[j].pattern_type = "performance_degradation"
                                /\ last.result[j].severity =
                                      IF loadTime >= 10000 THEN <<1, 1>>
                                      ELSE Rat(loadTime, 10000)
\* Reached: one call analysed a session holding the loads of 2999, 3000
\* and 12000 ms and returned a single slow-load finding, of severity 1.0;
\* an earlier call returned the finding of the 3001 ms load.
C11_Witness ==
    /\ Len(returned) = 2
    /\ returned[1] # <<>>
    /\ \E i \in 1..Len(returned[1]) : returned[1][i] = <<3001, 10000>>
    /\ {DataGet(last.events[i].data, "loadTime", 0) :
           i \in {k \in 1..Len(last.events) : last.events[k].type = PERFORMANCE_LOAD}}
         = {2999, 3000, 12000}
    /\ Cardinality({j \in 1..Len(last.result) :
                       last.result[j].description = "slow_page_load"}) = 1
    /\ \E j \in 1..Len(last.result) :
          /\ last.result[j].event_id = "p9"
          /\ last.result[j].severity = <<1, 1>>

\* ------------------------------------------------------------------ C12
\* The confidences of the hypotheses of the returned summary.
LastConfidences ==
    {last.insight[1].intent_hypotheses[i].confidence :
        i \in 1..Len(last.insight[1].intent_hypotheses)}
\* The greatest of them, 0.0 when there is none.
LastMaxConfidence ==
    IF LastConfidences = {} THEN <<0, 1>>
    ELSE CHOOSE c \in LastConfidences : \A o \in LastConfidences : RatLeq(o, c)
\* 0.7 * max confidence + 0.3 * min(1.0, patterns / 10), before rounding.
LastWeighted ==
    LET n == Len(last.insight[1].friction_patterns)
        factor == IF n >= 10 THEN <<1, 1>> ELSE Rat(n, 10)
    IN  RatAdd(RatMul(<<7, 10>>, LastMaxConfidence), RatMul(<<3, 10>>, factor))
\* C12: the confidence_score of every returned summary is the weighted sum
\* rounded to two decimals: a multiple of 0.01 at most 0.005 away from it;
\* it is 0.75 for one hypothesis of confidence 0.9 and four patterns; and
\* it lies in [0, 1] whenever every hypothesis confidence does.
C12_ConfidenceScore ==
    InsightReturned =>
        LET score == last.insight[1].confidence_score
            n == Len(last.insight[1].friction_patterns)
        IN  /\ last.insight[1].friction_patterns = last.result
            /\ 100 % score[2] = 0
            /\ RatLeq(RatSub(score, LastWeighted), <<1, 200>>)
            /\ RatLeq(RatSub(LastWeighted, score), <<1, 200>>)
            /\ (LastConfidences = {<<9, 10>>} /\ n = 4) => score = <<3, 4>>
            /\ (\A c \in LastConfidences : RatLeq(<<0, 1>>, c) /\ RatLeq(c, <<1, 1>>))
                  => RatLeq(<<0, 1>>, score) /\ RatLeq(score, <<1, 1>>)
\* Reached: a summary with the single hypothesis of confidence 0.9 and four
\* friction patterns, scored 0.75.
C12_Witness ==
    /\ InsightReturned
    /\ Len(last.insight[1].intent_hypotheses) = 1
    /\ LastConfidences = {<<9, 10>>}
    /\ Len(last.insight[1].friction_patterns) = 4
    /\ last.insight[1].confidence_score = <<3, 4>>

\* ------------------------------------------------------------------ C13
\* C13: get_session for an id no event was ever added for returns a session
\* with no events, a duration of 0 ms, and no page view, interaction or
\* friction event.
C13_UnknownSession ==
    (held # <<>> /\ Arrivals(held[1].session_id) = <<>>) =>
        /\ SessionEvents(held[1]) = <<>>
        /\ get_duration_ms(held[1]) = 0
        /\ get_page_views(SessionEvents(held[1])) = 0
        /\ get_interactions(SessionEvents(held[1])) = 0
        /\ Len(get_friction_events(SessionEvents(held[1]))) = 0
\* Reached: the buffer holds another session's events and the caller holds
\* the session of an id that never received any.
C13_Witness ==
    /\ held # <<>>
    /\ Arrivals(held[1].session_id) = <<>>
    /\ ~HasKey(sessions, held[1].session_id)
    /\ sessions # <<>>
    /\ held[1].end_time = NoTime

\* ------------------------------------------------------------------ C14
\* An event's data with every non-numeric value left out, so that the
\* reads take their defaults (0, and 1 for totalFields).
Defaulted(events) ==
    [i \in 1..Len(events) |->
        [events[i] EXCEPT !.data = {p \in @ : p[2] # NonNumeric}]]
\* C14: analyze_session never raises because of a numeric field; a missing
\* or non-numeric loadTime, latency, clickCount, timeOnPage or
\* fieldsCompleted counts as 0 and totalFields as 1.
C14_NumericFieldsDefault ==
    last.op # "none" =>
        /\ ~last.raised
        /\ last.result = DetectAll(Defaulted(last.events))

\* ------------------------------------------------------------------ C15
\* C15: while a generate_insights call waits on the intent inferrer, the
\* other requests can make progress: some step of another request can be
\* taken.
C15_OthersProgress ==
    pending # <<>> => ENABLED OtherRequestStep

\* ------------------------------------------------------------------ C16
\* The event sequence and the derived metrics of a session.
Metrics(session) ==
    [events |-> SessionEvents(session),
     duration_ms |-> get_duration_ms(session),
     page_views |-> get_page_views(SessionEvents(session)),
     interactions |-> get_interactions(SessionEvents(session)),
     friction_events |-> get_friction_events(SessionEvents(session))]
\* The held session has every event its id has received: no add_events
\* call has touched the id since the session was returned.
HeldCurrent ==
    /\ held # <<>>
    /\ Len(SessionEvents(held[1]))
         = Len(DictGet(sessions, held[1].session_id, <<>>))
\* C16: a get_session (or get_all_sessions) call changes neither the buffer
\* nor the session count, and when it follows a call for the same id with
\* no add_events in between, the session it returns has the same event
\* sequence and the same duration, page-view count, interaction count and
\* friction events as the one returned before.
C16_RepeatedGetSession ==
    [][ (delivered' = delivered /\ returned' = returned /\ last' = last) =>
            /\ sessions' = sessions
            /\ get_session_count(sessions') = get_session_count(sessions)
            /\ (HeldCurrent /\ held' # <<>>
                  /\ held'[1].session_id = held[1].session_id)
                 => Metrics(held[1])' = Metrics(held[1]) ]_vars
\* Reached: a held session, current, with events of several types; any
\* further get_session for its id is a repeated call.
C16_Witness ==
    /\ HeldCurrent
    /\ Len(delivered) = 2
    /\ Len(held[1].events) >= 4
    /\ get_duration_ms(held[1]) > 0
    /\ get_page_views(held[1].events) > 0
    /\ get_interactions(held[1].events) > 0
    /\ get_friction_events(held[1].events) # <<>>

=============================================================================
